---- MODULE Spec2Model ----
(***************************************************************************)
(* Model of extractor/datasets.py: the RasterDataset and VectorDataset     *)
(* wrappers and their get_sample_area_data reductions.                     *)
(*                                                                         *)
(* The Earth Engine primitives the wrappers call (Image.distance,          *)
(* reduceRegion, Geometry.buffer, filterBounds, Join.saveBest,             *)
(* Algorithms.If, Element.get/set ...) are modelled by their documented    *)
(* behaviour over a small one-dimensional world of cells.  A nullable      *)
(* Earth Engine value is a set with at most one element: {} is null.       *)
(***************************************************************************)
EXTENDS Integers, Sequences, FiniteSets

\* ------------------------------------------------------------------ bounds

\* Cells 0 .. NearCells-1 form a cluster of neighbouring cells; cell NearCells
\* is one remote cell.
NearCells == 2
\* Distance in map units between two neighbouring cells of the cluster.
Step == 600
\* Additional distance in map units between the cluster and the remote cell:
\* the remote cell is beyond the kernel radius of every cell of the cluster,
\* within the search radius of the cluster's last cell and beyond that of
\* the others.
FarGap == 9000
\* Largest number of cells of a sample geometry or of a feature geometry.
MaxGeomLen == 2
\* Largest number of features of a vector layer.
MaxFeatures == 2

\* ------------------------------------------------------- program constants

\* ee.Kernel.euclidean(1000, 'meters'): the search radius of the distance probe.
KernelRadius == 1000
\* ee.Filter.withinDistance(distance=10000, ...): the nearest-feature radius.
SearchRadius == 10000

\* ------------------------------------------------------------------ values

\* null (Python None, Earth Engine null).
None == {}
Some(v) == {v}
\* The value of a non-null nullable.
The(n) == CHOOSE v \in n : TRUE

\* Pixel values of a raster band.  They are even so that the median of an
\* even number of pixels, the mean of the two middle ones, is an integer.
PixVals == {0, 2, 4}
\* Values of the requested property of a vector feature.
PropVals == {1, 2}
\* A value already stored on a sample area under the dataset's key.
StaleVal == 9
\* The sample id the sample area builder stores under 'name'.
SampleId == 7
\* The requested band of the snippet, another band of it, and the optional
\* display name.
BandName == "b0"
OtherBand == "b1"
DisplayName == "label"
\* The requested property of the vector layer's features.
PropertyName == "p0"
\* Property keys of a sample area.
Keys == {"name", BandName, PropertyName, DisplayName}

\* ---------------------------------------------------------------- geometry

Cells == 0 .. NearCells
Coord(c) == IF c < NearCells THEN c * Step ELSE c * Step + FarGap
Abs(x) == IF x < 0 THEN -x ELSE x
CellDist(a, b) == Abs(Coord(a) - Coord(b))
Min(S) == CHOOSE x \in S : \A y \in S : x <= y
Max(S) == CHOOSE x \in S : \A y \in S : x >= y
\* Distance between two non-empty geometries.
GeomDist(g, h) == Min({CellDist(a, b) : a \in g, b \in h})
\* The geometries of sample areas and of features: runs of cells.
Intervals ==
    {lo .. hi : lo \in Cells, hi \in Cells} \ {{}}
Geometries == {g \in Intervals : Cardinality(g) <= MaxGeomLen}

RECURSIVE SumOver(_, _)
SumOver(f, S) ==
    IF S = {} THEN 0
    ELSE LET c == CHOOSE x \in S : TRUE IN f[c] + SumOver(f, S \ {c})

\* ee.Geometry.buffer(distance): every cell within `d` of the geometry; `d`
\* is the rational d.sum / d.n.
buffer(geometry, d) ==
    {c \in Cells : \E g \in geometry : CellDist(c, g) * d.n <= d.sum}

\* ee.Algorithms.If's reading of a nullable number as a condition: null and
\* 0 are false, every other number is true.
Truthy(n) == n # None /\ The(n).sum # 0
\* ee.Number.eq(0)
eq0(n) == The(n).sum = 0

\* Mutant of set: a new element holding the one property only.
set_only(element, key, value) ==
    [element EXCEPT !.attrs = [k \in Keys |-> IF k = key THEN value ELSE None]]

\* Element.set(key, value): a null value leaves the property absent.
set(element, key, value) ==
    [element EXCEPT !.attrs = [@ EXCEPT ![key] = value]]

\* ----------------------------------------------------------- RasterDataset

\* Image.select([band], [name]): the one band `band` of the image, renamed.
\* `px` holds the pixels of the requested band.
select(image, band, name) ==
    [bands |-> {name}, px |-> image.px]
\* Mutant of mosaic: pixels holding 0 count as masked.
mosaic_zero_masked(images) ==
    [bands |-> images[1].bands,
     px |-> [c \in Cells |->
               LET valid == {i \in 1 .. Len(images) :
                               images[i].px[c] # None /\ images[i].px[c] # Some(0)}
               IN IF valid = {} THEN None ELSE images[Max(valid)].px[c]]]

\* ImageCollection.mosaic(): the last unmasked pixel of the collection wins.
mosaic(images) ==
    [bands |-> images[1].bands,
     px |-> [c \in Cells |->
               LET valid == {i \in 1 .. Len(images) : images[i].px[c] # None}
               IN IF valid = {} THEN None ELSE images[Max(valid)].px[c]]]

\* Mutant of RasterDataset_init: self.band keeps the requested band.
RasterDataset_init_band_kept(snippet, band, name, categorical) ==
    LET self_name == IF name # None THEN The(name) ELSE band
    IN [kind |-> "raster",
        name |-> self_name,
        categorical |-> categorical,
        map_params |-> {},
        data |-> IF snippet.type = "ImageCollection"
                 THEN mosaic([i \in 1 .. Len(snippet.images) |->
                                select(snippet.images[i], band, self_name)])
                 ELSE select(snippet.images[1], band, self_name),
        band |-> band]

\* RasterDataset.__init__: the name defaults to the band; a collection is
\* mosaicked after the band is selected and renamed; self.band is the name.
RasterDataset_init(snippet, band, name, categorical) ==
    LET self_name == IF name # None THEN The(name) ELSE band
    IN [kind |-> "raster",
        name |-> self_name,
        categorical |-> categorical,
        map_params |-> {},
        data |-> IF snippet.type = "ImageCollection"
                 THEN mosaic([i \in 1 .. Len(snippet.images) |->
                                select(snippet.images[i], band, self_name)])
                 ELSE select(snippet.images[1], band, self_name),
        band |-> self_name]

\* Mutant of distance_image: the kernel's radius is not applied.
distance_image_unbounded(px) ==
    [c \in Cells |->
       LET near == {CellDist(c, k) : k \in {x \in Cells : px[x] # None /\ px[x] # Some(0)}}
       IN IF near = {} THEN None ELSE Some(CHOOSE x \in near : \A y \in near : x <= y)]

\* Image.distance(kernel, skipMasked=False): per pixel the distance to the
\* nearest non-zero pixel within the kernel's radius, masked where there is
\* none.  A masked input pixel is not a non-zero pixel.
NonZero(px) == {c \in Cells : px[c] # None /\ px[c] # Some(0)}
distance_image(px) ==
    [c \in Cells |->
       LET near == {x \in {CellDist(c, k) : k \in NonZero(px)} : x <= KernelRadius}
       IN IF near = {} THEN None ELSE Some(Min(near))]

\* reduceRegion(ee.Reducer.mean()): the mean of the unmasked pixels of the
\* geometry as the rational sum / n, null when there is none.
reduce_mean(px, geometry) ==
    LET valid == {c \in geometry : px[c] # None}
    IN IF valid = {} THEN None
       ELSE Some([sum |-> SumOver([c \in Cells |-> IF c \in valid THEN The(px[c]) ELSE 0], valid),
                  n |-> Cardinality(valid)])

distance(self, geometry) ==
    reduce_mean(distance_image(self.data.px), geometry)

\* Whether the layer has the band self.band: distance_image.select([self.band])
\* faults on a band the image does not have.
has_band(self) == self.band \in self.data.bands

\* The unmasked pixel values of the geometry and how often each occurs.
ValuesIn(px, geometry) == {The(px[c]) : c \in {x \in geometry : px[x] # None}}
Count(px, geometry, v) == Cardinality({c \in geometry : px[c] = Some(v)})

\* reduceRegion(ee.Reducer.mode()): the results the reduction can give: a
\* most frequent value (which one of several is not specified), null when
\* the geometry holds no unmasked pixel.
mode(self, geometry) ==
    LET px == self.data.px
        vals == ValuesIn(px, geometry)
    IN IF vals = {} THEN {None}
       ELSE {Some(v) : v \in {w \in vals :
                \A u \in vals : Count(px, geometry, u) <= Count(px, geometry, w)}}

\* The k-th smallest (k >= 1) of the unmasked pixels of the geometry.
Kth(px, geometry, k) ==
    CHOOSE v \in ValuesIn(px, geometry) :
        /\ Cardinality({c \in geometry : px[c] # None /\ The(px[c]) < v}) < k
        /\ Cardinality({c \in geometry : px[c] # None /\ The(px[c]) <= v}) >= k

\* reduceRegion(ee.Reducer.median()): the middle pixel value, the mean of the
\* two middle ones for an even number of pixels, null for none.
median(self, geometry) ==
    LET px == self.data.px
        n == Cardinality({c \in geometry : px[c] # None})
    IN IF n = 0 THEN {None}
       ELSE IF n % 2 = 1 THEN {Some(Kth(px, geometry, (n + 1) \div 2))}
       ELSE {Some((Kth(px, geometry, n \div 2) + Kth(px, geometry, n \div 2 + 1)) \div 2)}

\* Mutant of select_geometry: the sample geometry is never buffered.
select_geometry_unbuffered(sample_area, d) ==
    sample_area.geo

\* The geometry get_sample_area_data reduces over (the nested ee.Algorithms.If).
select_geometry(sample_area, d) ==
    IF Truthy(d)
    THEN IF eq0(d) THEN sample_area.geo ELSE buffer(sample_area.geo, The(d))
    ELSE sample_area.geo

\* Mutant of reduce: the two statistics swapped.
reduce_swapped(self, geometry) ==
    IF self.categorical THEN median(self, geometry) ELSE mode(self, geometry)

\* The results the reduction of get_sample_area_data can give.
reduce(self, geometry) ==
    IF self.categorical THEN mode(self, geometry) ELSE median(self, geometry)

\* ----------------------------------------------------------- VectorDataset

\* The value of a server-side expression: a value, or the fault its
\* evaluation ends in.
Ok(v) == [fault |-> FALSE, value |-> v]
Fault == [fault |-> TRUE, value |-> None]

VectorDataset_init(snippet, property, name) ==
    [kind |-> "vector",
     data |-> snippet,
     property |-> property,
     name |-> IF name # None THEN The(name) ELSE property,
     map_params |-> {}]

\* FeatureCollection.filterBounds(geometry): the features whose geometry
\* intersects the geometry, in the collection's order.
filterBounds(collection, geom) ==
    SelectSeq(collection, LAMBDA f : f.geo \cap geom # {})
\* Feature.intersection(geometry): the intersection of the geometries with
\* the properties of the left feature.
intersection(feature, geom) ==
    [feature EXCEPT !.geo = @ \cap geom]
\* The FeatureCollection of the overlaps of the sample area and the dataset.
get_overlaps(self, sa) ==
    LET hit == filterBounds(self.data, sa.geo)
    IN [i \in 1 .. Len(hit) |-> intersection(hit[i], sa.geo)]
\* FeatureCollection.first(): null for an empty collection.
first(collection) ==
    IF Len(collection) = 0 THEN None ELSE Some(collection[1])
\* Mutant of get: a property that is not set is a fault too.
get_strict(object, property) ==
    IF object = None \/ (CHOOSE o \in object : TRUE).prop = None
    THEN [fault |-> TRUE, value |-> None]
    ELSE [fault |-> FALSE, value |-> (CHOOSE o \in object : TRUE).prop]

\* Element.get(property) of a nullable element: a fault for a null element
\* ("Parameter 'object' is required"), null for a property not set.
get(object, property) ==
    IF object = None THEN Fault ELSE Ok(The(object).prop)
\* Geometry.area()
area(geom) == Cardinality(geom)

\* The features ee.Filter.withinDistance(10000) matches with the sample area.
withinDistance(self, sa) ==
    {i \in 1 .. Len(self.data) : GeomDist(sa.geo, self.data[i].geo) <= SearchRadius}
\* Mutant of saveBest: every match is saved, not only the nearest.
saveBest_any(self, sa) ==
    withinDistance(self, sa)

\* ee.Join.saveBest: the matches with the best (smallest) distance; which one
\* of several is saved is not specified.
saveBest(self, sa) ==
    LET m == withinDistance(self, sa)
    IN {i \in m : \A j \in m :
          GeomDist(sa.geo, self.data[i].geo) <= GeomDist(sa.geo, self.data[j].geo)}

\* The results get_nearest_feature can give: the closest feature, or the
\* fault of result.get('closestFeature') on the null first element of an
\* empty join.
get_nearest_feature(self, sa) ==
    LET best == saveBest(self, sa)
    IN IF best = {} THEN {Fault}
       ELSE {Ok(Some(self.data[i])) : i \in best}

\* Mutant of get_predominant_feature: the overlaps are not filtered by area.
get_predominant_feature_unfiltered(overlaps) ==
    first(overlaps)

\* Mutant of get_predominant_feature: the filter compares with lte, so the
\* first overlap whose area is at most the maximum is taken.
get_predominant_feature_lte(overlaps) ==
    first(SelectSeq(overlaps, LAMBDA f :
        area(f.geo) <= Max({area(overlaps[i].geo) : i \in 1 .. Len(overlaps)})))

\* The overlap with the largest area: the first of those whose area is at
\* least the maximum.
get_predominant_feature(overlaps) ==
    LET max_area == Max({area(overlaps[i].geo) : i \in 1 .. Len(overlaps)})
    IN first(SelectSeq(overlaps, LAMBDA f : area(f.geo) >= max_area))

\* Mutant of resolve: with one overlap the layer's first feature is taken,
\* not the first overlap.
resolve_first_of_layer(self, sa, overlaps) ==
    IF Len(overlaps) = 1 THEN {Ok(first(self.data))}
    ELSE IF Len(overlaps) = 0 THEN get_nearest_feature(self, sa)
    ELSE {Ok(get_predominant_feature(overlaps))}

\* The features get_sample_area_data can resolve for the sample area (the
\* nested ee.Algorithms.If on overlaps.size()).
resolve(self, sa, overlaps) ==
    IF Len(overlaps) = 1 THEN {Ok(first(overlaps))}
    ELSE IF Len(overlaps) = 0 THEN get_nearest_feature(self, sa)
    ELSE {Ok(get_predominant_feature(overlaps))}

\* ------------------------------------------------------------------- state

VARIABLES
    ds,           \* the dataset instance (RasterDataset or VectorDataset)
    ctor,         \* history: the arguments the instance was constructed with
    sample_area,  \* the argument of the last get_sample_area_data call, or null
    dist,         \* RasterDataset: the distance probed by the last call
    geometry,     \* RasterDataset: the geometry the last call reduced over
    overlaps,     \* VectorDataset: the overlaps the last call computed
    feature,      \* VectorDataset: the feature the last call resolved, or null
    returned,     \* the sample area the last call returned, or null
    outcome,      \* "idle" before any call, then "ok" or "fault"
    tiebreak,     \* the service's preference among equally good results, 0
                  \* until a call met several
    repeated,     \* history: the last call repeated the call before it
    queries       \* parallel driver: each worker's query in flight

vars == <<ds, ctor, sample_area, dist, geometry, overlaps, feature, returned,
          outcome, tiebreak, repeated, queries>>

\* The raster layers: every pixel masked or holding a value.
PixelLayers == [Cells -> {None} \cup {Some(v) : v \in PixVals}]
Images == {[bands |-> {BandName, OtherBand}, px |-> px] : px \in PixelLayers}
Snippets ==
    {[type |-> t, images |-> <<im>>] : t \in {"Image", "ImageCollection"}, im \in Images}
\* The arguments of RasterDataset(...) and of VectorDataset(...).
RasterCtors ==
    {[kind |-> "raster", snippet |-> sn, band |-> BandName, name |-> n, categorical |-> cat] :
        sn \in Snippets, n \in {None, Some(DisplayName)}, cat \in BOOLEAN}
\* The instance the constructor builds from its arguments.
Construct(args) ==
    IF args.kind = "raster"
    THEN RasterDataset_init(args.snippet, args.band, args.name, args.categorical)
    ELSE VectorDataset_init(args.snippet, args.property, args.name)
\* The dataset instance as __init__ built it.
constructed == Construct(ctor)
RasterDatasets == {Construct(args) : args \in RasterCtors}

\* The sample areas the sample area builder hands over: a geometry and the
\* sample id, here with values an earlier run stored under the band's and the
\* property's own names and none under the display name, so that a dataset
\* named by default replaces a value and a dataset with a display name adds
\* one.
InputAttrs ==
    [k \in Keys |-> IF k = "name" THEN Some(SampleId)
                    ELSE IF k = DisplayName THEN None ELSE Some(StaleVal)]
SampleAreas == {[geo |-> g, attrs |-> InputAttrs] : g \in Geometries}

\* The vector layers: up to MaxFeatures features, each a geometry and the
\* requested property's value, null when the feature lacks the property.
Features ==
    {[geo |-> g, prop |-> p] : g \in Geometries, p \in {None} \cup {Some(v) : v \in PropVals}}
FeatureCollections ==
    UNION {[1 .. n -> Features] : n \in 0 .. MaxFeatures}
VectorCtors ==
    {[kind |-> "vector", snippet |-> fc, property |-> PropertyName, name |-> n] :
        fc \in FeatureCollections, n \in {None, Some(DisplayName)}}
VectorDatasets == {Construct(args) : args \in VectorCtors}

\* The sample areas a call is made with: any sample area at first, then the
\* sample area of the last call again.
Inputs == IF outcome = "idle" THEN SampleAreas ELSE sample_area

\* The service evaluates an expression deterministically, but which of
\* several equally good results (tied modes, equally near features) it
\* prefers is not specified: `tiebreak` is 0 until a call meets several, and
\* from then on the rank, by key, of the result the service prefers.
Preferred(V, k) ==
    CHOOSE v \in V : Cardinality({u \in V : u < v}) = (k - 1) % Cardinality(V)
\* The results the service can give among the candidates, ordered by key.
Serve(cands, key, k) ==
    IF Cardinality(cands) = 1 \/ k = 0 THEN cands
    ELSE {c \in cands : key[c] = Preferred({key[x] : x \in cands}, k)}
\* The preference once the service gave result c among the candidates.
Served(cands, key, k, c) ==
    IF Cardinality(cands) = 1 \/ k # 0 THEN k
    ELSE 1 + Cardinality({u \in {key[x] : x \in cands} : u < key[c]})
\* The order of tied reduction results (by value), and of tied features of
\* a layer (by position in the layer).
NumberKey(cands) == [n \in cands |-> IF n = None THEN 0 ELSE The(n)]
FeatureKey(self, cands) ==
    [f \in cands |->
       LET at == {i \in 1 .. Len(self.data) : Some(self.data[i]) = f.value}
       IN IF at = {} THEN 0 ELSE Min(at)]

\* The workers of the parallel driver, and a worker without a query.
Workers == {"w1", "w2"}
NoQuery == [phase |-> "idle", expr |-> None, returned |-> None, outcome |-> "idle"]

\* Mutant of raster_self_after: the call keeps the clipped layer on self.
raster_self_clipped(self, g) ==
    [self EXCEPT !.data.px = [c \in Cells |-> IF c \in g THEN @[c] ELSE None]]

\* The instance after get_sample_area_data: no method assigns an attribute
\* of self after __init__.
raster_self_after(self, g) == self

\* Mutant of vector_self_after: the call keeps the overlaps as self.data.
vector_self_overlaps(self, ov) == [self EXCEPT !.data = ov]

vector_self_after(self, ov) == self

Init ==
    /\ ctor \in RasterCtors \cup VectorCtors
    /\ ds = Construct(ctor)
    /\ sample_area = None
    /\ dist = None
    /\ geometry = {}
    /\ overlaps = <<>>
    /\ feature = None
    /\ returned = None
    /\ outcome = "idle"
    /\ tiebreak = 0
    /\ repeated = FALSE
    /\ queries = [w \in Workers |-> NoQuery]

Raster_get_sample_area_data(sa) ==
    /\ ds.kind = "raster"
    /\ LET d == distance(ds, sa.geo)
           g == select_geometry(sa, d)
           cands == reduce(ds, g)
       IN \E result \in Serve(cands, NumberKey(cands), tiebreak) :
            /\ sample_area' = Some(sa)
            /\ dist' = d
            /\ geometry' = g
            /\ returned' = IF has_band(ds) THEN Some(set(sa, ds.band, result)) ELSE None
            /\ outcome' = IF has_band(ds) THEN "ok" ELSE "fault"
            /\ tiebreak' = Served(cands, NumberKey(cands), tiebreak, result)
            /\ ds' = raster_self_after(ds, g)
    /\ repeated' = (sample_area = Some(sa))
    /\ UNCHANGED <<ctor, overlaps, feature, queries>>

Vector_get_sample_area_data(sa) ==
    /\ ds.kind = "vector"
    /\ LET ov == get_overlaps(ds, sa)
           cands == resolve(ds, sa, ov)
           key == FeatureKey(ds, cands)
       IN \E f \in Serve(cands, key, tiebreak) :
            LET value == IF f.fault THEN Fault ELSE get(f.value, ds.property)
            IN /\ sample_area' = Some(sa)
               /\ overlaps' = ov
               /\ feature' = f.value
               /\ returned' = IF value.fault THEN None
                              ELSE Some(set(sa, ds.name, value.value))
               /\ outcome' = IF value.fault THEN "fault" ELSE "ok"
               /\ tiebreak' = Served(cands, key, tiebreak, f)
               /\ ds' = vector_self_after(ds, ov)
    /\ repeated' = (sample_area = Some(sa))
    /\ UNCHANGED <<ctor, dist, geometry, queries>>

Next ==
    \/ \E sa \in Inputs : Raster_get_sample_area_data(sa)
    \/ \E sa \in Inputs : Vector_get_sample_area_data(sa)

Spec == Init /\ [][Next]_vars

\* --------------------------------------------------------- parallel queries

\* The results of the expression get_sample_area_data builds on a
\* RasterDataset, as the service with preference k evaluates it, each with
\* the preference the service has afterwards.
RasterQuery(self, sa, k) ==
    LET g == select_geometry(sa, distance(self, sa.geo))
        cands == reduce(self, g)
    IN {[returned |-> IF has_band(self) THEN Some(set(sa, self.band, result)) ELSE None,
         outcome |-> IF has_band(self) THEN "ok" ELSE "fault",
         tiebreak |-> Served(cands, NumberKey(cands), k, result)] :
           result \in Serve(cands, NumberKey(cands), k)}
\* The same for the expression built on a VectorDataset.
VectorQuery(self, sa, k) ==
    LET cands == resolve(self, sa, get_overlaps(self, sa))
        key == FeatureKey(self, cands)
        value(f) == IF f.fault THEN Fault ELSE get(f.value, self.property)
    IN {[returned |-> IF value(f).fault THEN None
                      ELSE Some(set(sa, self.name, value(f).value)),
         outcome |-> IF value(f).fault THEN "fault" ELSE "ok",
         tiebreak |-> Served(cands, key, k, f)] :
           f \in Serve(cands, key, k)}
Query(self, sa, k) ==
    IF self.kind = "raster" THEN RasterQuery(self, sa, k) ELSE VectorQuery(self, sa, k)
\* The instance after a get_sample_area_data call with the sample area.
self_after(self, sa) ==
    IF self.kind = "raster"
    THEN raster_self_after(self, select_geometry(sa, distance(self, sa.geo)))
    ELSE vector_self_after(self, get_overlaps(self, sa))

\* The datasets and sample areas of the parallel runs: datasets named by
\* default, over one image or over at most one feature, and sample areas of
\* one cell.
ConcCtors ==
    {a \in RasterCtors : a.name = None /\ a.snippet.type = "Image"}
        \cup {a \in VectorCtors : a.name = None /\ Len(a.snippet) <= 1}
ConcSampleAreas == {sa \in SampleAreas : Cardinality(sa.geo) = 1}

InitConc ==
    /\ ctor \in ConcCtors
    /\ ds = Construct(ctor)
    /\ sample_area = None
    /\ dist = None
    /\ geometry = {}
    /\ overlaps = <<>>
    /\ feature = None
    /\ returned = None
    /\ outcome = "idle"
    /\ tiebreak = 0
    /\ repeated = FALSE
    /\ queries = [w \in Workers |-> NoQuery]

\* A worker calls get_sample_area_data on the shared instance: the call
\* builds the expression from the instance as it is and returns at once.
Issue(w, sa) ==
    /\ queries[w].phase = "idle"
    /\ queries' = [queries EXCEPT ![w] =
                      [phase |-> "issued", expr |-> Some([self |-> ds, sa |-> sa]),
                       returned |-> None, outcome |-> "idle"]]
    /\ ds' = self_after(ds, sa)
    /\ UNCHANGED <<ctor, sample_area, dist, geometry, overlaps, feature, returned,
                   outcome, tiebreak, repeated>>

\* The service evaluates a worker's expression: the sample area with the
\* value attached, or the fault the expression ends in.
Evaluate(w) ==
    /\ queries[w].phase = "issued"
    /\ \E r \in Query(The(queries[w].expr).self, The(queries[w].expr).sa, tiebreak) :
         /\ queries' = [queries EXCEPT ![w] =
                           [@ EXCEPT !.phase = "done", !.returned = r.returned,
                                     !.outcome = r.outcome]]
         /\ tiebreak' = r.tiebreak
    /\ UNCHANGED <<ds, ctor, sample_area, dist, geometry, overlaps, feature, returned,
                   outcome, repeated>>

\* The remote query of a worker times out or fails in the service.
Fail(w) ==
    /\ queries[w].phase = "issued"
    /\ queries' = [queries EXCEPT ![w] = [@ EXCEPT !.phase = "failed", !.outcome = "failed"]]
    /\ UNCHANGED <<ds, ctor, sample_area, dist, geometry, overlaps, feature, returned,
                   outcome, tiebreak, repeated>>

\* A failed query is retried: the same expression is sent again.
Retry(w) ==
    /\ queries[w].phase = "failed"
    /\ queries' = [queries EXCEPT ![w] = [@ EXCEPT !.phase = "issued", !.outcome = "idle"]]
    /\ UNCHANGED <<ds, ctor, sample_area, dist, geometry, overlaps, feature, returned,
                   outcome, tiebreak, repeated>>

NextConc ==
    \/ \E w \in Workers, sa \in ConcSampleAreas : Issue(w, sa)
    \/ \E w \in Workers : Evaluate(w)
    \/ \E w \in Workers : Fail(w)
    \/ \E w \in Workers : Retry(w)

SpecConc == InitConc /\ [][NextConc]_vars

\* ------------------------------------------------- the last call, observed

Called == outcome # "idle"
\* The sample area the last call was made with, and the one it returned.
Arg == The(sample_area)
Ret == The(returned)
\* The value the last call attached under the dataset's name.
Value == Ret.attrs[ds.name]
RasterCalled == ds.kind = "raster" /\ Called
VectorCalled == ds.kind = "vector" /\ Called

\* The features of the layer that overlap the sample geometry, and the area
\* of each one's intersection with it.
OverlapIdx == {i \in 1 .. Len(ds.data) : ds.data[i].geo \cap Arg.geo # {}}
AreaOf(i) == Cardinality(ds.data[i].geo \cap Arg.geo)
\* The features of the layer within the search radius of the sample geometry.
InRadiusIdx ==
    {i \in 1 .. Len(ds.data) : GeomDist(Arg.geo, ds.data[i].geo) <= SearchRadius}
\* The pixels of the layer that hold data.
ValidCells == {c \in Cells : ds.data.px[c] # None}

\* ------------------------------------------------------------------ claims

\* C1: VectorDataset.get_sample_area_data: if exactly one feature overlaps
\* the sample geometry, the call returns and the value attached under the
\* dataset's name is that feature's property value, whatever other features
\* the layer holds.
C1_ExactlyOneOverlap ==
    (VectorCalled /\ Cardinality(OverlapIdx) = 1) =>
        /\ outcome = "ok"
        /\ \A i \in OverlapIdx : Value = ds.data[i].prop

\* A call with one overlapping feature while a larger feature with another
\* property value comes first in the layer and does not overlap.
C1_Witness ==
    /\ VectorCalled /\ outcome = "ok"
    /\ Len(ds.data) = 2
    /\ OverlapIdx = {2}
    /\ area(ds.data[1].geo) > area(ds.data[2].geo)
    /\ ds.data[1].prop # ds.data[2].prop
    /\ Value = ds.data[2].prop
    /\ Value # None

\* C2: VectorDataset.get_sample_area_data: with more than one overlapping
\* feature and pairwise distinct intersection areas, the value attached is
\* the property of the feature whose intersection area is strictly maximal,
\* whatever the order of the features in the layer.
C2_LargestOverlap ==
    (/\ VectorCalled
     /\ Cardinality(OverlapIdx) > 1
     /\ \A i \in OverlapIdx : \A j \in OverlapIdx \ {i} : AreaOf(i) # AreaOf(j)) =>
        /\ outcome = "ok"
        /\ \A i \in OverlapIdx :
             (\A j \in OverlapIdx \ {i} : AreaOf(j) < AreaOf(i)) =>
                 Value = ds.data[i].prop

\* A call with two overlapping features of distinct intersection areas where
\* the larger overlap is the later feature and the property values differ.
C2_Witness ==
    /\ VectorCalled /\ outcome = "ok"
    /\ OverlapIdx = {1, 2}
    /\ AreaOf(1) < AreaOf(2)
    /\ ds.data[1].prop # ds.data[2].prop
    /\ Value = ds.data[2].prop
    /\ Value # None

\* C3: VectorDataset.get_sample_area_data: with no overlapping feature and
\* at least one feature within the 10,000-unit search radius, the call
\* returns, the resolved feature is a feature of the layer no other feature
\* is nearer than, and the value attached is that feature's property.
C3_NearestFeature ==
    (VectorCalled /\ OverlapIdx = {} /\ InRadiusIdx # {}) =>
        /\ outcome = "ok"
        /\ feature # None
        /\ \E i \in InRadiusIdx : ds.data[i] = The(feature)
        /\ \A j \in 1 .. Len(ds.data) :
             GeomDist(Arg.geo, The(feature).geo) <= GeomDist(Arg.geo, ds.data[j].geo)
        /\ Value = The(feature).prop

\* A call without overlap where two features lie within the radius, the
\* nearer one is the later feature and the property values differ.
C3_Witness ==
    /\ VectorCalled /\ outcome = "ok"
    /\ OverlapIdx = {}
    /\ InRadiusIdx = {1, 2}
    /\ GeomDist(Arg.geo, ds.data[2].geo) < GeomDist(Arg.geo, ds.data[1].geo)
    /\ ds.data[1].prop # ds.data[2].prop
    /\ Value = ds.data[2].prop
    /\ Value # None

\* C4: RasterDataset.get_sample_area_data reduces over the sample geometry
\* unchanged when the probed distance d is null or 0, and over the sample
\* geometry buffered by exactly d when d > 0; over no other geometry.
C4_GeometrySelection ==
    RasterCalled =>
        /\ dist = None => geometry = Arg.geo
        /\ (dist # None /\ The(dist).sum = 0) => geometry = Arg.geo
        /\ (dist # None /\ The(dist).sum > 0) =>
             geometry = {c \in Cells :
                           GeomDist({c}, Arg.geo) * The(dist).n <= The(dist).sum}
        /\ returned # None
        /\ Value \in reduce(ds, geometry)

\* A call whose probed distance is positive and whose buffered geometry is
\* larger than the sample geometry.
C4_Witness ==
    /\ RasterCalled
    /\ dist # None /\ The(dist).sum > 0
    /\ geometry # Arg.geo
    /\ Arg.geo \subseteq geometry

\* C5: a RasterDataset's reduction statistic is decided by its categorical
\* flag alone, which stays as constructed: a categorical dataset attaches a
\* most frequent pixel value of the reduced geometry (a value of the layer
\* there, or null when there is no pixel), any other dataset the median.
C5_StatisticByFlag ==
    /\ ds.kind = "raster" => ds.categorical = constructed.categorical
    /\ RasterCalled =>
         LET px == ds.data.px
             n == Cardinality(geometry \cap ValidCells)
         IN IF constructed.categorical
            THEN /\ Value \in mode(ds, geometry)
                 /\ Value # None =>
                      /\ The(Value) \in {The(px[c]) : c \in geometry \cap ValidCells}
                      /\ \A u \in PixVals :
                           Count(px, geometry, u) <= Count(px, geometry, The(Value))
                 /\ Value = None => n = 0
            ELSE /\ Value \in median(ds, geometry)
                 /\ Value # None =>
                      /\ 2 * Cardinality({c \in geometry \cap ValidCells :
                                            The(px[c]) <= The(Value)}) >= n
                      /\ 2 * Cardinality({c \in geometry \cap ValidCells :
                                            The(px[c]) >= The(Value)}) >= n
                 /\ Value = None => n = 0

\* A call on a categorical dataset over pixels whose median is no pixel value.
C5_Witness ==
    /\ RasterCalled
    /\ ds.categorical
    /\ Value # None
    /\ Value \notin median(ds, geometry)
    /\ None \notin median(ds, geometry)

\* C6: VectorDataset.get_sample_area_data: with no overlapping feature and
\* no feature within the search radius, the call completes and returns the
\* sample area with a null value under the dataset's name.
C6_NoMatchYieldsNoValue ==
    (VectorCalled /\ OverlapIdx = {} /\ InRadiusIdx = {}) =>
        /\ outcome = "ok"
        /\ returned # None
        /\ Value = None

\* C7: VectorDataset.get_sample_area_data: whenever the resolved feature
\* lacks the requested property (one, zero or many overlaps), the call
\* completes and the value attached is null.
C7_MissingProperty ==
    (VectorCalled /\ feature # None /\ The(feature).prop = None) =>
        /\ outcome = "ok"
        /\ returned # None
        /\ Value = None

\* A call without overlap whose nearest feature lacks the property, made
\* with a sample area that held a value under the dataset's name.
C7_Witness ==
    /\ VectorCalled /\ outcome = "ok"
    /\ OverlapIdx = {}
    /\ feature # None /\ The(feature).prop = None
    /\ Arg.attrs[ds.name] # None
    /\ Value = None

\* C8: RasterDataset.get_sample_area_data: for a sample geometry more than
\* 1000 units from every pixel holding data, the probed distance is null
\* (not 0), the geometry is not buffered, the call completes and the value
\* attached is null.
C8_BeyondRadius ==
    (/\ RasterCalled
     /\ \A c \in Arg.geo : \A v \in ValidCells : CellDist(c, v) > KernelRadius) =>
        /\ dist = None
        /\ geometry = Arg.geo
        /\ outcome = "ok"
        /\ returned # None
        /\ Value = None

\* A call for the remote cell on a layer with non-zero data in the cluster.
C8_Witness ==
    /\ RasterCalled /\ outcome = "ok"
    /\ \A c \in Arg.geo : \A v \in ValidCells : CellDist(c, v) > KernelRadius
    /\ NonZero(ds.data.px) # {}
    /\ dist = None

\* C9: for a sample geometry lying entirely within the layer's coverage the
\* probed distance is 0 and the reduction runs over the sample geometry.
C9_CoveredMeansZero ==
    (RasterCalled /\ Arg.geo \subseteq ValidCells) =>
        /\ dist # None
        /\ The(dist).sum = 0
        /\ geometry = Arg.geo

C15_PredominantIsMaximal ==
    (VectorCalled /\ Cardinality(OverlapIdx) > 1) =>
        /\ outcome = "ok"
        /\ feature # None
        /\ \E i \in OverlapIdx :
             /\ The(feature).geo = ds.data[i].geo \cap Arg.geo
             /\ The(feature).prop = ds.data[i].prop
        /\ The(feature).geo # {}
        /\ \A j \in OverlapIdx : AreaOf(j) <= Cardinality(The(feature).geo)
        /\ Value = The(feature).prop

\* A call with two overlaps of the same area and different property values.
C15_Witness ==
    /\ VectorCalled /\ outcome = "ok"
    /\ OverlapIdx = {1, 2}
    /\ AreaOf(1) = AreaOf(2)
    /\ ds.data[1].prop # ds.data[2].prop
    /\ feature # None
    /\ Cardinality(The(feature).geo) = AreaOf(1)
    /\ Value \in {ds.data[1].prop, ds.data[2].prop}

\* The name a RasterDataset was constructed to carry: the supplied name, or
\* the requested band when none was supplied.
ExpectedName == IF ctor.name # None THEN The(ctor.name) ELSE ctor.band

Twin(args) ==
    [args EXCEPT !.snippet.type = IF @ = "Image" THEN "ImageCollection" ELSE "Image"]

ResultOf(w) == [returned |-> queries[w].returned, outcome |-> queries[w].outcome]
AloneResults(w) ==
    {[returned |-> r.returned, outcome |-> r.outcome] :
        r \in Query(constructed, The(queries[w].expr).sa, tiebreak)}

====
